---------------------------- MODULE Spec2Model ----------------------------
(* A model of the MCP demo: the orchestrating client (client-stdio.py) and *)
(* the Tool Host (main.py).  One run of interactive_azure_openai is one    *)
(* behaviour: construction of the client, connection to the Tool Host,     *)
(* the interactive loop, process_query step by step, and cleanup.          *)
EXTENDS Integers, Sequences, FiniteSets, TLC

VARIABLES
    pc,          \* where interactive_azure_openai / process_query stands
    env,         \* the three required configuration values, as the process sees them
    session,     \* the connection to the Tool Host: "none", "open", "closed"
    iter,        \* iterations of the interactive loop started so far
    listCount,   \* list_tools requests the Tool Host has received
    user_input,  \* the loop's `user_input`: the last line read, stripped
    notes,       \* the Tool Host's notes file: the text written so far
    added,       \* the messages of the add_note calls that have run, in order
    query,       \* process_query's argument
    response,    \* the first model response (response.choices[0].message)
    messages,    \* process_query's local `messages`
    idx,         \* position of the for loop over assistant_message.tool_calls
    tool_result, \* the for loop's `result`: content of the last call_tool result
    modelCalls,  \* chat.completions.create calls issued by this query, in order
    hostCalls,   \* call_tool requests sent by this query, in order (loop positions)
    result,      \* how process_query ended: its return value or the exception
    out          \* what the loop last printed to the user

vars == <<pc, env, session, iter, listCount, user_input, notes, added, query, response, messages,
          idx, tool_result, modelCalls, hostCalls, result, out>>

(***************************************************************************)
(* Bounds of the model.                                                    *)
(***************************************************************************)
MaxCalls == 2     \* tool call requests in one model response
MaxIter == 2      \* iterations of the interactive loop

(***************************************************************************)
(* Values.                                                                 *)
(***************************************************************************)
None == "<None>"                       \* Python's None, where a string may stand

Truthy(s) == s # None /\ s # ""        \* bool(s) for s a string or None

EnvValues == {None, "", "set"}         \* os.getenv: unset, set but empty, set

Queries == {"add a note saying buy milk", "read my notes"}

Contents == {None, "", "hello"}        \* message.content of a model response

CallIds == {"call_1", "call_2"}

RegisteredTools == {"draw_ascii_rabbit", "add_note", "read_notes"}

ArgMilk == "{\"message\":\"buy milk\"}"      \* compact, as models emit it
ArgEmptyMsg == "{\"message\": \"\"}"
ArgNone == "{}"
ArgBad == "{message: buy"             \* not valid JSON

\* (function name, raw argument string) pairs a model response may carry
CallShapes ==
    { <<"add_note", ArgMilk>>, <<"add_note", ArgBad>>, <<"read_notes", ArgNone>>,
      <<"draw_ascii_rabbit", ArgNone>>, <<"delete_note", ArgNone>> }

ToolCallRequests ==
    { [id |-> i, type |-> "function", name |-> s[1], arguments |-> s[2]] :
        i \in CallIds, s \in CallShapes }

SeqsUpTo(S, n) == UNION { [1..k -> S] : k \in 0..n }

\* message.tool_calls: None, or a list of tool call requests
ToolCallLists ==
    { [none |-> TRUE, list |-> <<>>] } \cup
    { [none |-> FALSE, list |-> l] : l \in SeqsUpTo(ToolCallRequests, MaxCalls) }

FirstResponses == [content : Contents, tool_calls : ToolCallLists]

NoResponse == [content |-> None, tool_calls |-> [none |-> TRUE, list |-> <<>>]]

NoResult == [kind |-> "none", value |-> None, stage |-> "none"]


(***************************************************************************)
(* The Tool Host (main.py).                                                *)
(***************************************************************************)
Whitespace == {" ", "\n", "\t"}

RECURSIVE LStrip(_)
LStrip(s) ==
    IF Len(s) > 0 /\ SubSeq(s, 1, 1) \in Whitespace
    THEN LStrip(SubSeq(s, 2, Len(s)))
    ELSE s

RECURSIVE RStrip(_)
RStrip(s) ==
    IF Len(s) > 0 /\ SubSeq(s, Len(s), Len(s)) \in Whitespace
    THEN RStrip(SubSeq(s, 1, Len(s) - 1))
    ELSE s

Strip(s) == RStrip(LStrip(s))          \* str.strip()

\* a variant that opens the file for writing, not for appending
add_note_file_truncating(file, message) == message \o "\n"

\* add_note(message): the file after the append
add_note_file(file, message) == file \o message \o "\n"

add_note_return == "Note saved!"

\* read_notes(): content = f.read().strip(); return content or "No notes yet."
read_notes(file) == IF Strip(file) # "" THEN Strip(file) ELSE "No notes yet."

draw_ascii_rabbit == "(\\   /)\n( ._. )"

\* json.loads on the raw argument strings the model may send
JsonLoads(s) ==
    IF s = ArgMilk THEN [ok |-> TRUE, has_message |-> TRUE, message |-> "buy milk"]
    ELSE IF s = ArgEmptyMsg THEN [ok |-> TRUE, has_message |-> TRUE, message |-> ""]
    ELSE IF s = ArgNone THEN [ok |-> TRUE, has_message |-> FALSE, message |-> None]
    ELSE [ok |-> FALSE, has_message |-> FALSE, message |-> None]

TextItem(s) == [type |-> "text", text |-> s]

\* a content item that is no text (an image): it has no `text` attribute
ImageItem == [type |-> "image", data |-> "iVBOR", mimeType |-> "image/png"]

ListContent(items) == [kind |-> "list", items |-> items, repr |-> None]

\* result.content = None
AbsentContent == [kind |-> "none", items |-> <<>>, repr |-> "None"]

\* result.content a value that is no list: its str() and its truth value
OtherContent(repr, truthy) ==
    [kind |-> "other", items |-> <<>>, repr |-> repr, truthy |-> truthy]

\* the for loop's `result` before the first call_tool
NoToolResult == [kind |-> "unset", items |-> <<>>, repr |-> None]

\* What one call_tool request can come to: the call raises in the client, or a
\* result comes back; `file` is the notes file afterwards.
Raised(file) == [raised |-> TRUE, content |-> ListContent(<<>>), file |-> file]

Returned(s, file) ==
    [raised |-> FALSE, content |-> ListContent(<<TextItem(s)>>), file |-> file]

HostOutcomes(name, args, file) ==
    { Raised(file) } \cup
    IF name \notin RegisteredTools
    THEN { Returned("Unknown tool: " \o name, file) }
    ELSE IF name = "add_note"
    THEN IF args.has_message
         THEN { Returned(add_note_return, add_note_file(file, args.message)) }
         ELSE { Returned("Error executing tool add_note: message is required", file) }
    ELSE IF name = "read_notes"
    THEN { Returned(read_notes(file), file) }
    ELSE { Returned(draw_ascii_rabbit, file) }

(***************************************************************************)
(* process_query's pure parts (client-stdio.py).                           *)
(***************************************************************************)
\* bool(assistant_message.tool_calls)
HasToolCalls(r) == ~r.tool_calls.none /\ Len(r.tool_calls.list) > 0

NumCalls(r) == IF HasToolCalls(r) THEN Len(r.tool_calls.list) ELSE 0

UserMsg(q) == [role |-> "user", content |-> q]

\* json.dumps of a decoded argument object
JsonDumps(v) ==
    IF v.has_message THEN "{\"message\": \"" \o v.message \o "\"}" ELSE "{}"

\* a variant that decodes the arguments and encodes them again
ReplayedCallReencoded(tc) ==
    [id |-> tc.id, type |-> tc.type,
     function |-> [name |-> tc.name,
                   arguments |-> IF JsonLoads(tc.arguments).ok
                                 THEN JsonDumps(JsonLoads(tc.arguments))
                                 ELSE tc.arguments]]

ReplayedCall(tc) ==
    [id |-> tc.id, type |-> tc.type,
     function |-> [name |-> tc.name, arguments |-> tc.arguments]]

AssistantMsg(r) ==
    LET content == IF Truthy(r.content) THEN r.content ELSE "" IN
    IF HasToolCalls(r)
    THEN [role |-> "assistant", content |-> content,
          tool_calls |-> [i \in 1..Len(r.tool_calls.list) |->
                             ReplayedCall(r.tool_calls.list[i])]]
    ELSE [role |-> "assistant", content |-> content]

\* a variant that keeps a running conversation: one user message for every
\* loop iteration so far
FirstMessagesKept(q) == [i \in 1..iter |-> UserMsg(q)]

\* the message list of the first model call
FirstMessages(q) == <<UserMsg(q)>>

\* a variant that starts the list with the assistant message
InitialMessagesSwapped(q, r) == <<AssistantMsg(r), UserMsg(q)>>

InitialMessages(q, r) == <<UserMsg(q), AssistantMsg(r)>>

\* a variant that drops the text of the result
ToolContentDropped(c) == ""

\* bool(result.content)
ContentTruthy(c) ==
    IF c.kind = "list" THEN Len(c.items) > 0
    ELSE IF c.kind = "other" THEN c.truthy
    ELSE FALSE

\* result.content[0].text raises AttributeError: the first item has no `text`
ToolContentRaises(c) ==
    /\ ContentTruthy(c)
    /\ c.kind = "list"
    /\ "text" \notin DOMAIN c.items[1]

\* the coercion of result.content to the tool message's content
ToolContent(c) ==
    IF ~ContentTruthy(c) THEN ""
    ELSE IF c.kind = "list" THEN c.items[1].text
    ELSE c.repr

\* a variant that tags the result with the function name instead of the call id
ToolMsgTaggedByName(tc, content) ==
    [role |-> "tool", tool_call_id |-> tc.name, content |-> content]

ToolMsg(tc, content) ==
    [role |-> "tool", tool_call_id |-> tc.id, content |-> content]

ModelCall(msgs, mode) == [messages |-> msgs, tool_choice |-> mode]

FirstToolChoice == "auto"

\* a variant that leaves tool invocation on in the second call
SecondToolChoiceAuto == "auto"

SecondToolChoice == "none"

Return(v) == [kind |-> "return", value |-> v, stage |-> "done"]

Raise(e, stage) == [kind |-> "raise", value |-> e, stage |-> stage]

(***************************************************************************)
(* The state after the module is loaded: nothing constructed yet; the      *)
(* environment holds any combination of the three required values.         *)
(***************************************************************************)
Init ==
    /\ pc = "start"
    /\ env \in [api_key : EnvValues, endpoint : EnvValues, deployment : EnvValues]
    /\ session = "none"
    /\ iter = 0
    /\ listCount = 0
    /\ user_input = None
    /\ notes = ""
    /\ added = <<>>
    /\ query = None
    /\ response = NoResponse
    /\ messages = <<>>
    /\ idx = 0
    /\ tool_result = NoToolResult
    /\ modelCalls = <<>>
    /\ hostCalls = <<>>
    /\ result = NoResult
    /\ out = [kind |-> "none", text |-> None]

locals == <<query, response, messages, idx, tool_result, modelCalls, hostCalls, result>>

\* a variant that forgets the deployment name
ConfigCompleteNoDeployment(e) == Truthy(e.api_key) /\ Truthy(e.endpoint)

\* all([api_key, endpoint, self.deployment_name]), deployment_name = None or getenv
ConfigComplete(e) == Truthy(e.api_key) /\ Truthy(e.endpoint) /\ Truthy(e.deployment)

\* client = MCPAzureOpenAIClient(): __init__ raises ValueError on incomplete
\* configuration.  The statement stands before the try block, so the exception
\* leaves interactive_azure_openai without reaching a handler or the finally.
Construct ==
    /\ pc = "start"
    /\ IF ConfigComplete(env)
       THEN pc' = "connect" /\ UNCHANGED out
       ELSE pc' = "crashed" /\ out' = [kind |-> "traceback", text |-> "ValueError"]
    /\ UNCHANGED <<env, session, iter, listCount, user_input, notes, added, locals>>

\* connect_to_server: open the transport and the session, initialize, list_tools.
\* A failure, before or after the session is open, is caught by
\* `except ValueError` or `except Exception`, by its type, and cleanup follows.
ConnectToServer ==
    /\ pc = "connect"
    /\ \/ /\ session' = "open"
          /\ listCount' = listCount + 1
          /\ pc' = "input"
          /\ out' = [kind |-> "banner", text |-> None]
       \/ /\ session' \in {"none", "open"}
          /\ listCount' = listCount
          /\ pc' = "cleanup"
          /\ out' \in { [kind |-> "error", text |-> "McpError"],
                       [kind |-> "config_error", text |-> "ValueError"] }
    /\ UNCHANGED <<env, iter, user_input, notes, added, locals>>

Sentinels == {"exit", "quit", "bye"}

UpperLetters == "ABCDEFGHIJKLMNOPQRSTUVWXYZ"

LowerLetters == "abcdefghijklmnopqrstuvwxyz"

LowerChar(c) ==
    IF \E i \in 1..26 : SubSeq(UpperLetters, i, i) = c
    THEN LET i == CHOOSE j \in 1..26 : SubSeq(UpperLetters, j, j) = c
         IN SubSeq(LowerLetters, i, i)
    ELSE c

RECURSIVE LowerFrom(_, _)
LowerFrom(s, k) ==
    IF k > Len(s) THEN "" ELSE LowerChar(SubSeq(s, k, k)) \o LowerFrom(s, k + 1)

\* a variant that compares the input as typed
LowerAsTyped(s) == s

Lower(s) == LowerFrom(s, 1)            \* str.lower()

InputLines == Queries \cup {"", "  ", " exit ", "EXIT", "quit", "Bye"}

\* a variant that treats a failure of input() like an interrupt
AfterInputErrorEndsLoop == "cleanup"

\* where the loop goes when input() raises an Exception such as EOFError: the
\* handler at the end of the loop body prints it and the while loop goes on
AfterInputError == "input"

\* One pass of the while loop up to the call of process_query.
ReadInput ==
    /\ pc = "input"
    /\ \/ \E line \in InputLines :
            LET input == Strip(line) IN
            IF Lower(input) \in Sentinels
            THEN /\ out' = [kind |-> "goodbye", text |-> None]
                 /\ pc' = "cleanup"
                 /\ user_input' = input
                 /\ UNCHANGED <<iter, locals>>
            ELSE /\ iter < MaxIter
                 /\ iter' = iter + 1
                 /\ user_input' = input
                 /\ IF input = ""
                    THEN /\ out' = [kind |-> "empty_warning", text |-> None]
                         /\ pc' = "input"
                         /\ UNCHANGED locals
                    ELSE /\ out' = [kind |-> "processing", text |-> input]
                         /\ pc' = "fetch_tools"
                         /\ query' = input
                         /\ response' = NoResponse
                         /\ messages' = <<>>
                         /\ idx' = 0
                         /\ tool_result' = NoToolResult
                         /\ modelCalls' = <<>>
                         /\ hostCalls' = <<>>
                         /\ result' = NoResult
       \/ \* input() raises EOFError: caught by `except Exception`
          /\ iter < MaxIter
          /\ iter' = iter + 1
          /\ out' = [kind |-> "query_error", text |-> "EOFError"]
          /\ pc' = AfterInputError
          /\ UNCHANGED <<user_input, locals>>
       \/ \* input() raises KeyboardInterrupt
          /\ out' = [kind |-> "goodbye", text |-> None]
          /\ pc' = "cleanup"
          /\ UNCHANGED <<iter, user_input, locals>>
    /\ UNCHANGED <<env, session, listCount, notes, added>>

\* a variant that reuses the tool list fetched at startup
ListedPerQueryCached(n) == n

\* list_tools requests received once get_mcp_tools has run, n before it
ListedPerQuery(n) == n + 1

\* tools = await self.get_mcp_tools()
GetMcpTools ==
    /\ pc = "fetch_tools"
    /\ listCount' = ListedPerQuery(listCount)
    /\ \/ /\ pc' = "call1"
          /\ UNCHANGED result
       \/ /\ pc' = "returned"
          /\ result' = Raise("McpError", "list_tools")
    /\ UNCHANGED <<env, session, iter, user_input, notes, added, query, response, messages,
                   idx, tool_result, modelCalls, hostCalls, out>>

\* where process_query goes when the first model call raises: the except
\* clause prints and re-raises
AfterFirstCallError == "returned"

\* a variant that returns the normalised content of assistant_msg
DirectAnswerNormalised(r) == IF Truthy(r.content) THEN r.content ELSE ""

\* what process_query returns when the response carries no tool calls
DirectAnswer(r) == r.content

\* a variant that makes the second model call whether or not tools were called
AfterFirstResponseAlwaysSecond(r) == IF HasToolCalls(r) THEN "tool_loop" ELSE "call2"

\* where process_query goes after the first response
AfterFirstResponse(r) == IF HasToolCalls(r) THEN "tool_loop" ELSE "returned"

\* The first chat.completions.create call and, on a response, the construction
\* of assistant_msg and messages and the branch on tool_calls.
FirstModelCall ==
    /\ pc = "call1"
    /\ modelCalls' = Append(modelCalls, ModelCall(FirstMessages(query), FirstToolChoice))
    /\ \/ /\ pc' = AfterFirstCallError
          /\ result' = Raise("APIError", "call1")
          /\ UNCHANGED <<response, messages, idx>>
       \/ \E r \in FirstResponses :
            /\ response' = r
            /\ messages' = InitialMessages(query, r)
            /\ pc' = AfterFirstResponse(r)
            /\ IF HasToolCalls(r)
               THEN idx' = 1 /\ UNCHANGED result
               ELSE idx' = 0 /\ result' = Return(DirectAnswer(r))
    /\ UNCHANGED <<env, session, iter, listCount, user_input, notes, added, query,
                   tool_result, hostCalls, out>>

\* a variant that swallows the exception and goes on to the second model call
AfterToolErrorSwallowed == "call2"

\* where process_query goes when json.loads or call_tool raises inside the for
\* loop: nothing catches it there, so the exception leaves process_query
AfterToolError == "returned"

\* The head of one pass of the for loop: json.loads of the raw arguments, then
\* the call_tool request goes out.
ToolCallStart ==
    /\ pc = "tool_loop"
    /\ LET tool_call == response.tool_calls.list[idx] IN
       IF JsonLoads(tool_call.arguments).ok
       THEN /\ hostCalls' = Append(hostCalls, idx)
            /\ pc' = "tool_wait"
            /\ UNCHANGED result
       ELSE /\ result' = Raise("JSONDecodeError", "args")
            /\ pc' = AfterToolError
            /\ UNCHANGED hostCalls
    /\ UNCHANGED <<env, session, iter, listCount, user_input, notes, added, query, response,
                   messages, idx, tool_result, modelCalls, out>>

\* a variant that leaves the for loop after the first result
AfterToolResultEarly(i, n) == "call2"

\* where the for loop goes after appending the result of call i of n
AfterToolResult(i, n) == IF i < n THEN "tool_loop" ELSE "call2"

\* The rest of a pass of the for loop once call_tool has come to outcome o:
\* the call raised, or the coercion of its result raises, or the coerced
\* result is appended as a tool message.
FinishWith(o) ==
    /\ pc = "tool_wait"
    /\ LET tool_call == response.tool_calls.list[idx] IN
          /\ notes' = o.file
          /\ added' = IF o.file # notes
                       THEN Append(added, JsonLoads(tool_call.arguments).message)
                       ELSE added
          /\ IF o.raised
             THEN /\ result' = Raise("McpError", "call_tool")
                  /\ pc' = AfterToolError
                  /\ UNCHANGED <<messages, idx, tool_result>>
             ELSE IF ToolContentRaises(o.content)
             THEN /\ result' = Raise("AttributeError", "coerce")
                  /\ pc' = AfterToolError
                  /\ tool_result' = o.content
                  /\ UNCHANGED <<messages, idx>>
             ELSE /\ messages' = Append(messages, ToolMsg(tool_call, ToolContent(o.content)))
                  /\ idx' = idx + 1
                  /\ pc' = AfterToolResult(idx, Len(response.tool_calls.list))
                  /\ tool_result' = o.content
                  /\ UNCHANGED result
    /\ UNCHANGED <<env, session, iter, listCount, user_input, query, response,
                   modelCalls, hostCalls, out>>

\* The rest of the pass against the Tool Host of main.py: it runs the tool.
ToolCallFinish ==
    /\ pc = "tool_wait"
    /\ LET tool_call == response.tool_calls.list[idx] IN
       \E o \in HostOutcomes(tool_call.name, JsonLoads(tool_call.arguments), notes) :
          FinishWith(o)

\* message.content of the second response: nothing, a text of the model's own,
\* or the text of the last tool message repeated
FinalContents(msgs) == {None, "Done.", msgs[Len(msgs)].content}

\* The second chat.completions.create call; its content is returned.
SecondModelCall ==
    /\ pc = "call2"
    /\ modelCalls' = Append(modelCalls, ModelCall(messages, SecondToolChoice))
    /\ pc' = "returned"
    /\ \/ result' = Raise("APIError", "call2")
       \/ \E c \in FinalContents(messages) : result' = Return(c)
    /\ UNCHANGED <<env, session, iter, listCount, user_input, notes, added, query, response,
                   messages, idx, tool_result, hostCalls, out>>

\* a variant whose handler sits outside the while loop
AfterQueryErrorEndsLoop == "cleanup"

\* what the loop does with an exception of process_query: `except Exception`
\* prints it and the while loop goes on
AfterQueryError == "input"

\* Back in the loop: the answer is printed, or the exception is caught and
\* printed; process_query's locals are gone.
Report ==
    /\ pc = "returned"
    /\ IF result.kind = "return"
       THEN /\ out' = [kind |-> "answer", text |-> result.value]
            /\ pc' = "input"
       ELSE /\ out' = [kind |-> "query_error", text |-> result.value]
            /\ pc' = AfterQueryError
    /\ query' = None
    /\ response' = NoResponse
    /\ messages' = <<>>
    /\ idx' = 0
    /\ tool_result' = NoToolResult
    /\ modelCalls' = <<>>
    /\ hostCalls' = <<>>
    /\ result' = NoResult
    /\ UNCHANGED <<env, session, iter, listCount, user_input, notes, added>>

\* finally: await client.cleanup()
Cleanup ==
    /\ pc = "cleanup"
    /\ session' = IF session = "open" THEN "closed" ELSE session
    /\ pc' = "done"
    /\ UNCHANGED <<env, iter, listCount, user_input, notes, added, locals, out>>

Next ==
    \/ Construct
    \/ ConnectToServer
    \/ ReadInput
    \/ GetMcpTools
    \/ FirstModelCall
    \/ ToolCallStart
    \/ ToolCallFinish
    \/ SecondModelCall
    \/ Report
    \/ Cleanup

Spec == Init /\ [][Next]_vars

TypeOK ==
    /\ pc \in {"start", "crashed", "connect", "input", "fetch_tools", "call1",
               "tool_loop", "tool_wait", "call2", "returned", "cleanup", "done",
               "host_ready", "host_added", "host_read"}
    /\ session \in {"none", "open", "closed"}
    /\ iter \in 0..MaxIter
    /\ idx \in 0..(MaxCalls + 1)
    /\ Len(modelCalls) <= 2

(***************************************************************************)
(* Properties of process_query.                                            *)
(***************************************************************************)
\* the first model call has been answered (it did not raise)
Received == Len(modelCalls) >= 1 /\ ~(result.kind = "raise" /\ result.stage = "call1")

Requests == response.tool_calls.list

ToolMsgsOf(msgs) == SelectSeq(msgs, LAMBDA m : m.role = "tool")

\* C1: when the second model call is issued after a first response with N >= 1
\* tool call requests, the message list it sends holds exactly N tool-role
\* messages, and the i-th of them carries the tool_call_id of the i-th request.
C1_ToolResultsCorrelated ==
    Len(modelCalls) = 2 =>
        LET toolMsgs == ToolMsgsOf(modelCalls[2].messages) IN
        /\ HasToolCalls(response)
        /\ Len(toolMsgs) = Len(Requests)
        /\ \A i \in 1..Len(toolMsgs) : toolMsgs[i].tool_call_id = Requests[i].id

C1_Witness ==
    /\ Len(modelCalls) = 2
    /\ Len(Requests) = 2
    /\ Requests[1].id # Requests[2].id
    /\ ToolMsgsOf(modelCalls[2].messages)[2].tool_call_id = Requests[2].id

\* C2: the message list of the second model call has length 2 + N and is the
\* user message, the assistant message, then the N tool results in the order
\* of the requests.
C2_SecondCallMessageOrder ==
    Len(modelCalls) = 2 =>
        LET sent == modelCalls[2].messages IN
        /\ Len(sent) = 2 + NumCalls(response)
        /\ sent[1] = UserMsg(query)
        /\ sent[2] = AssistantMsg(response)
        /\ \A i \in 1..NumCalls(response) :
              /\ sent[2 + i].role = "tool"
              /\ sent[2 + i].tool_call_id = Requests[i].id

C2_Witness ==
    /\ Len(modelCalls) = 2
    /\ NumCalls(response) = 2
    /\ Len(modelCalls[2].messages) = 4
    /\ Requests[1].name = "add_note"
    /\ Requests[2].name = "read_notes"
    /\ modelCalls[2].messages[3].content = add_note_return
    /\ modelCalls[2].messages[4].content = "buy milk"

\* C3: the first model call has tool invocation mode "auto" and every second
\* model call has mode "none", whatever N is.
C3_ToolChoiceModes ==
    /\ Len(modelCalls) >= 1 => modelCalls[1].tool_choice = "auto"
    /\ Len(modelCalls) >= 2 => modelCalls[2].tool_choice = "none"

C3_Witness ==
    /\ Len(modelCalls) = 2
    /\ NumCalls(response) = 1
    /\ modelCalls[2].tool_choice = "none"

\* C4: when the first response carries no tool call requests, no tool is
\* invoked, no second model call is issued, and process_query returns the
\* response's content as the model gave it.
C4_NoToolCallsDirectAnswer ==
    (Received /\ ~HasToolCalls(response)) =>
        /\ hostCalls = <<>>
        /\ Len(modelCalls) = 1
        /\ pc = "returned"
        /\ result = Return(response.content)

C4_Witness ==
    /\ Received
    /\ ~response.tool_calls.none
    /\ Requests = <<>>
    /\ result = Return(None)

Answered == pc = "returned" /\ result.kind = "return"

\* C5 as stated: every query that completes has made exactly two model calls.
C5_ExactlyTwoRoundTrips == Answered => Len(modelCalls) = 2

\* C5, amended: a query never makes more than two model calls; a query that
\* returns an answer has made exactly one when the first response carried no
\* tool calls and exactly two when it carried some; once the second call is
\* made, process_query ends without invoking another tool.
C5_AtMostTwoRoundTrips ==
    /\ Len(modelCalls) <= 2
    /\ Answered => Len(modelCalls) = IF HasToolCalls(response) THEN 2 ELSE 1
    /\ Len(modelCalls) = 2 =>
          /\ pc = "returned"
          /\ HasToolCalls(response)
          /\ Len(hostCalls) = Len(Requests)

C5_Witness ==
    /\ Answered
    /\ Len(modelCalls) = 2
    /\ Len(Requests) = 2
    /\ result.value = "Done."

\* C6: tool calls are resolved one at a time in the order received: the
\* invocations sent are requests 1, 2, ... in order, invocation i+1 is sent only
\* when the results of 1..i are appended, and the second model call is issued
\* only when all N results are appended.
C6_SequentialResolution ==
    /\ \A i \in 1..Len(hostCalls) : hostCalls[i] = i
    /\ Len(hostCalls) >= 1 =>
          /\ Len(ToolMsgsOf(messages)) \in {Len(hostCalls) - 1, Len(hostCalls)}
          /\ pc = "tool_wait" => Len(ToolMsgsOf(messages)) = Len(hostCalls) - 1
          /\ pc = "tool_loop" => Len(ToolMsgsOf(messages)) = Len(hostCalls)
    /\ Len(modelCalls) = 2 =>
          /\ Len(ToolMsgsOf(modelCalls[2].messages)) = Len(Requests)
          /\ Len(hostCalls) = Len(Requests)

C6_Witness ==
    /\ pc = "tool_wait"
    /\ hostCalls = <<1, 2>>
    /\ Len(ToolMsgsOf(messages)) = 1
    /\ modelCalls[1].tool_choice = "auto"
    /\ Len(modelCalls) = 1

FirstCallFailed == result.kind = "raise" /\ result.stage = "call1"

\* C7: when the first model call fails, process_query ends with the error: one
\* model call was made and none follows, no tool was invoked, and the loop
\* reports the error and awaits the next input with the session still open.
C7_FirstCallFailureAborts ==
    [][FirstCallFailed =>
          /\ pc = "returned"
          /\ Len(modelCalls) = 1
          /\ hostCalls = <<>>
          /\ pc' = "input"
          /\ session' = "open"
          /\ out' = [kind |-> "query_error", text |-> "APIError"]
          /\ notes' = notes /\ iter' = iter]_vars

C7_Witness ==
    /\ FirstCallFailed
    /\ pc = "returned"
    /\ session = "open"
    /\ iter = 1
    /\ Len(modelCalls) = 1

ToolCallFailed == result.kind = "raise" /\ result.stage \in {"args", "call_tool"}

\* C8: when resolving the k-th tool call fails (json.loads or call_tool raises),
\* process_query ends with the exception: requests after k were not invoked, no
\* second model call was issued, and nothing is returned.
C8_ToolFailureAborts ==
    ToolCallFailed =>
        /\ pc = "returned"
        /\ idx \in 1..Len(Requests)
        /\ hostCalls = [i \in 1..(IF result.stage = "args" THEN idx - 1 ELSE idx) |-> i]
        /\ Len(ToolMsgsOf(messages)) = idx - 1
        /\ Len(modelCalls) = 1

C8_Witness ==
    /\ ToolCallFailed
    /\ result.stage = "call_tool"
    /\ idx = 1
    /\ Len(Requests) = 2
    /\ hostCalls = <<1>>

\* positions of the invocations sent for a tool name the Tool Host does not know
UnknownInvoked == { i \in 1..Len(hostCalls) : Requests[i].name \notin RegisteredTools }

UnknownToolText(i) == "Unknown tool: " \o Requests[i].name

C10_ConfigFailsFast ==
    (env.api_key = None \/ env.endpoint = None \/ env.deployment = None) =>
        /\ pc \in {"start", "crashed"}
        /\ session = "none"
        /\ listCount = 0
        /\ modelCalls = <<>>
        /\ hostCalls = <<>>
        /\ pc = "crashed" => out = [kind |-> "traceback", text |-> "ValueError"]

C10_Witness ==
    /\ pc = "crashed"
    /\ Truthy(env.api_key)
    /\ Truthy(env.endpoint)
    /\ env.deployment = None

(***************************************************************************)
(* The coercion of a call_tool result, for every shape result.content can  *)
(* take: process_query stands in the first pass of the for loop, the       *)
(* call_tool request is out, and any result may come back.                 *)
(***************************************************************************)
MaxItems == 2     \* items in a result's content list

ContentItems == { TextItem("Note saved!"), TextItem(""), ImageItem }

ResultShapes ==
    { AbsentContent } \cup
    { ListContent(l) : l \in SeqsUpTo(ContentItems, MaxItems) } \cup
    { OtherContent("plain text", TRUE), OtherContent("", FALSE),
      OtherContent("{}", FALSE), OtherContent("{'rows': 2}", TRUE) }

\* the responses whose single request passes json.loads
DecodableRequests == { tc \in ToolCallRequests : JsonLoads(tc.arguments).ok }

InitCoerce ==
    /\ pc = "tool_wait"
    /\ env = [api_key |-> "set", endpoint |-> "set", deployment |-> "set"]
    /\ session = "open"
    /\ iter = 1
    /\ listCount = 2
    /\ notes = ""
    /\ added = <<>>
    /\ query \in Queries
    /\ user_input = query
    /\ \E c \in Contents, tc \in DecodableRequests :
          response = [content |-> c, tool_calls |-> [none |-> FALSE, list |-> <<tc>>]]
    /\ messages = InitialMessages(query, response)
    /\ idx = 1
    /\ tool_result = NoToolResult
    /\ modelCalls = <<ModelCall(FirstMessages(query), FirstToolChoice)>>
    /\ hostCalls = <<1>>
    /\ result = NoResult
    /\ out = [kind |-> "processing", text |-> query]

\* call_tool returns a result of any shape; lines 167-180 run on it
CoerceAnyResult ==
    \E c \in ResultShapes : FinishWith([raised |-> FALSE, content |-> c, file |-> notes])

NextCoerce == CoerceAnyResult \/ SecondModelCall

SpecCoerce == InitCoerce /\ [][NextCoerce]_vars

\* the content the tool message is to have for result content c
C11_Expected(c) ==
    IF c.kind = "list" /\ Len(c.items) > 0 THEN c.items[1].text
    ELSE IF c.kind = "other" /\ c.truthy THEN c.repr
    ELSE ""

\* C11: for every tool result, the coercion does not fail and the tool message
\* appended carries the text of the first element of a non-empty list, the
\* stringified value of a non-empty value that is no list, and the empty string
\* for an empty or absent content.
C11_CoercionTotal ==
    tool_result.kind # "unset" =>
        /\ ~(result.kind = "raise" /\ result.stage = "coerce")
        /\ Len(ToolMsgsOf(messages)) = 1
        /\ messages[3].content = C11_Expected(tool_result)

\* the same for results whose first list element, if any, is a text item
C11_TextResultsCoerced ==
    (tool_result.kind # "unset" /\ ~(tool_result.kind = "list" /\ Len(tool_result.items) > 0
                                     /\ tool_result.items[1] = ImageItem)) =>
        /\ ~(result.kind = "raise" /\ result.stage = "coerce")
        /\ Len(ToolMsgsOf(messages)) = 1
        /\ messages[3].content = C11_Expected(tool_result)

(***************************************************************************)
(* Properties of the interactive loop.                                     *)
(***************************************************************************)
\* stripped inputs that are a sentinel up to letter case
SentinelForms == {"exit", "EXIT", "Exit", "quit", "QUIT", "bye", "Bye", "BYE"}

\* C12: when the line read is a sentinel (after trimming, ignoring case), the
\* loop ends without processing it as a query: no list_tools request, no model
\* call, no tool call; cleanup is the step that follows and closes the session.
C12_SentinelEndsLoop ==
    [][/\ (pc = "input" /\ user_input' \in SentinelForms) =>
              /\ pc' = "cleanup"
              /\ out' = [kind |-> "goodbye", text |-> None]
              /\ listCount' = listCount
              /\ iter' = iter
              /\ modelCalls' = <<>> /\ hostCalls' = <<>> /\ query' = None
       /\ (pc = "cleanup" /\ user_input \in SentinelForms) =>
              /\ pc' = "done"
              /\ session' = "closed"
              /\ listCount' = listCount]_vars

C12_Witness ==
    /\ pc = "done"
    /\ user_input = "EXIT"
    /\ session = "closed"
    /\ iter = 1
    /\ out.kind = "goodbye"

\* C13: no conversation state crosses queries.  The first model call of a query
\* sends that query's user message alone; `messages` then starts as that user
\* message and the assistant message of this query's response, grows only by
\* the tool message of this query's current call_tool result, and is what the
\* second model call sends: nothing of an earlier query enters either list.
C13_NoCrossQueryState ==
    [][/\ (Len(modelCalls) = 0 /\ Len(modelCalls') = 1) =>
              /\ modelCalls'[1].messages = <<[role |-> "user", content |-> query]>>
              /\ messages = <<>>
              /\ result'.kind # "raise" =>
                    messages' = <<[role |-> "user", content |-> query],
                                  AssistantMsg(response')>>
       /\ (Len(modelCalls) = 1 /\ Len(modelCalls') = 2) =>
              /\ modelCalls'[2].messages = messages
              /\ messages' = messages
       /\ (Len(modelCalls') = Len(modelCalls) /\ messages' # messages) =>
              \/ messages' = <<>>
              \/ /\ pc = "tool_wait"
                 /\ messages' = Append(messages,
                                       [role |-> "tool",
                                        tool_call_id |-> Requests[idx].id,
                                        content |-> C11_Expected(tool_result')])]_vars

\* a second query whose second model call is sent while the notes file holds a
\* note of the query before it
C13_Witness ==
    /\ iter = 2
    /\ Len(modelCalls) = 2
    /\ Len(Requests) = 1
    /\ Requests[1].name = "draw_ascii_rabbit"
    /\ notes # ""
    /\ modelCalls[2].messages =
          <<UserMsg(query), AssistantMsg(response),
            [role |-> "tool", tool_call_id |-> Requests[1].id,
             content |-> draw_ascii_rabbit]>>

(***************************************************************************)
(* The Tool Host on its own: add_note and read_notes of main.py called in  *)
(* any order with any of a few messages, from an empty notes file.         *)
(***************************************************************************)
MaxNotes == 3     \* add_note calls in one run

NoteMessages == {"buy milk", "call bob", "", " indented"}

InitNotes ==
    /\ pc = "host_ready"
    /\ env = [api_key |-> "set", endpoint |-> "set", deployment |-> "set"]
    /\ session = "open"
    /\ iter = 0
    /\ listCount = 1
    /\ user_input = None
    /\ notes = ""
    /\ added = <<>>
    /\ query = None
    /\ response = NoResponse
    /\ messages = <<>>
    /\ idx = 0
    /\ tool_result = NoToolResult
    /\ modelCalls = <<>>
    /\ hostCalls = <<>>
    /\ result = NoResult
    /\ out = [kind |-> "banner", text |-> None]

\* the outcomes of a call in which the tool ran and its result came back
Results(name, args, file) == { o \in HostOutcomes(name, args, file) : ~o.raised }

\* call_tool("add_note", {"message": m})
AddNote ==
    /\ pc \in {"host_ready", "host_added", "host_read"}
    /\ Len(added) < MaxNotes
    /\ \E m \in NoteMessages :
       \E o \in Results("add_note", [ok |-> TRUE, has_message |-> TRUE, message |-> m], notes) :
          /\ notes' = o.file
          /\ added' = Append(added, m)
          /\ tool_result' = o.content
    /\ pc' = "host_added"
    /\ UNCHANGED <<env, session, iter, listCount, user_input, query, response, messages,
                   idx, modelCalls, hostCalls, result, out>>

\* call_tool("read_notes", {})
ReadNotes ==
    /\ pc \in {"host_ready", "host_added", "host_read"}
    /\ \E o \in Results("read_notes", JsonLoads(ArgNone), notes) :
          /\ notes' = o.file
          /\ tool_result' = o.content
    /\ pc' = "host_read"
    /\ UNCHANGED <<env, session, iter, listCount, user_input, added, query, response,
                   messages, idx, modelCalls, hostCalls, result, out>>

NextNotes == AddNote \/ ReadNotes

SpecNotes == InitNotes /\ [][NextNotes]_vars

RECURSIVE JoinLines(_)
JoinLines(ms) ==
    IF Len(ms) = 0 THEN ""
    ELSE IF Len(ms) = 1 THEN ms[1]
    ELSE ms[1] \o "\n" \o JoinLines(Tail(ms))

ResultText == tool_result.items[1].text

\* C14: every add_note returns "Note saved!"; read_notes returns the added
\* messages in the order added, separated by line breaks, and returns
\* "No notes yet." exactly when no note has been added.
C14_ReadReturnsAllNotes ==
    /\ pc = "host_added" => ResultText = "Note saved!"
    /\ pc = "host_read" =>
          /\ ResultText = IF added = <<>> THEN "No notes yet." ELSE JoinLines(added)
          /\ ResultText = "No notes yet." <=> added = <<>>

\* the same for notes that are not empty and neither start nor end with
\* whitespace
C14_PlainNotesRead ==
    /\ pc = "host_added" => ResultText = "Note saved!"
    /\ (pc = "host_read" /\ \A i \in 1..Len(added) : added[i] \in {"buy milk", "call bob"}) =>
          /\ ResultText = IF added = <<>> THEN "No notes yet." ELSE JoinLines(added)
          /\ ResultText = "No notes yet." <=> added = <<>>

\* C15: the assistant message replayed in the second model call has the
\* model's content, or "" when the model gave none, and a tool_calls list of
\* the same length and order as received, each entry with the id, type,
\* function name and raw argument string of the request.
C15_AssistantReplayedAsReceived ==
    Len(modelCalls) = 2 =>
        LET a == modelCalls[2].messages[2] IN
        /\ a.role = "assistant"
        /\ a.content = IF response.content = None THEN "" ELSE response.content
        /\ DOMAIN a = {"role", "content", "tool_calls"}
        /\ Len(a.tool_calls) = Len(Requests)
        /\ \A i \in 1..Len(Requests) :
              /\ a.tool_calls[i].id = Requests[i].id
              /\ a.tool_calls[i].type = Requests[i].type
              /\ a.tool_calls[i].function.name = Requests[i].name
              /\ a.tool_calls[i].function.arguments = Requests[i].arguments

C15_Witness ==
    /\ Len(modelCalls) = 2
    /\ response.content = None
    /\ Len(Requests) = 2
    /\ Requests[1].arguments = ArgMilk
    /\ Requests[2].name = "read_notes"
    /\ modelCalls[2].messages[2].content = ""
    /\ modelCalls[2].messages[2].tool_calls[1].function.arguments = "{\"message\":\"buy milk\"}"

\* C16 as stated: after startup the Tool Host has received exactly one
\* list_tools request, however many queries were processed.
C16_ListToolsOnce ==
    pc \in {"input", "fetch_tools", "call1", "tool_loop", "tool_wait", "call2", "returned"}
        => listCount = 1

\* C16, amended: connect_to_server sends one list_tools request and every
\* process_query sends one more, at its start; nothing else sends one.
C16_ListToolsPerQuery ==
    [][/\ (pc = "connect" /\ pc' = "input") => (listCount = 0 /\ listCount' = 1)
       /\ pc = "fetch_tools" => listCount' = listCount + 1
       /\ pc \notin {"connect", "fetch_tools"} => listCount' = listCount]_vars

C16_Witness ==
    /\ pc = "call1"
    /\ iter = 2
    /\ listCount = 3

\* C17: a configuration error raised while the client is constructed is caught
\* by the ValueError handler of interactive_azure_openai, reported as a
\* configuration error, and cleanup runs before the program ends.
C17_ConfigErrorHandled ==
    (pc # "start" /\ (env.api_key = None \/ env.endpoint = None \/ env.deployment = None)) =>
        /\ pc \in {"cleanup", "done"}
        /\ out.kind = "config_error"
        /\ pc = "done" => session # "open"

InsideQuery == {"fetch_tools", "call1", "tool_loop", "tool_wait", "call2"}

\* C18: the loop ends only on a sentinel input or a keyboard interrupt.  An
\* exception while reading the input or while processing the query is reported
\* and the loop reads again; an empty line is answered with a warning and the
\* loop reads again without processing a query.  So a read that fails is always
\* followed by another read: with the input stream ended the loop does not end.
C18_LoopEndsOnlyOnSentinelOrInterrupt ==
    [][/\ pc = "input" =>
              \/ /\ pc' = "cleanup"
                 /\ out'.kind = "goodbye"
                 /\ user_input' \in SentinelForms \/ user_input' = user_input
              \/ /\ pc' = "input"
                 /\ session' = "open"
                 /\ \/ out' = [kind |-> "query_error", text |-> "EOFError"]
                    \/ out'.kind = "empty_warning" /\ user_input' = ""
                 /\ listCount' = listCount /\ modelCalls' = <<>> /\ hostCalls' = <<>>
              \/ /\ pc' = "fetch_tools"
                 /\ user_input' \notin SentinelForms \cup {""}
                 /\ query' = user_input'
       /\ pc \in InsideQuery => pc' \in InsideQuery \cup {"returned"}
       /\ pc = "returned" =>
              /\ pc' = "input"
              /\ session' = "open"
              /\ out'.kind = IF result.kind = "raise" THEN "query_error" ELSE "answer"]_vars

\* the read has failed in two iterations in a row and the loop reads again
C18_Witness ==
    /\ pc = "input"
    /\ iter = 2
    /\ user_input = None
    /\ out = [kind |-> "query_error", text |-> "EOFError"]
    /\ session = "open"

Aborted == pc = "returned" /\ result.kind = "raise"

\* C19: aborting a query does not undo its completed tool calls.  A note that
\* add_note has appended stays in the notes file through every later step: when
\* a later tool call or the second model call of the query fails, the loop
\* reports the error, no answer is printed, and the file keeps the note; a
\* read_notes of any later query gets the whole file, that note included.
C19_AbortKeepsSideEffects ==
    [][/\ Len(notes') >= Len(notes) /\ SubSeq(notes', 1, Len(notes)) = notes
       /\ (pc = "tool_wait" /\ Requests[idx].name = "add_note"
           /\ Len(messages') = Len(messages) + 1) =>
              notes' = notes \o "buy milk" \o "\n"
       /\ Aborted =>
              /\ notes' = notes
              /\ pc' = "input"
              /\ out' = [kind |-> "query_error", text |-> result.value]
       /\ (pc = "tool_wait" /\ Requests[idx].name = "read_notes"
           /\ Len(messages') = Len(messages) + 1) =>
              messages'[Len(messages')].content =
                  IF notes = "" THEN "No notes yet."
                  ELSE SubSeq(notes, 1, Len(notes) - 1)]_vars

\* the second call of a query has failed after its first call, add_note, ran
C19_Witness ==
    /\ Aborted
    /\ result.stage = "call_tool"
    /\ idx = 2
    /\ Requests[1].name = "add_note"
    /\ messages[3].content = "Note saved!"
    /\ notes = "buy milk\n"

\* a later query reads the note that an aborted query left (the file holds a
\* note that this query did not add)
C19_WitnessLaterRead ==
    /\ iter = 2
    /\ pc = "call2"
    /\ Len(Requests) = 1
    /\ Requests[1].name = "read_notes"
    /\ messages[3].content = "buy milk"

=============================================================================
